---- MODULE Spec2Model ----
(***************************************************************************)
(* TokenSmith index builder (src/tokensmith/megatron_dependencies.py).     *)
(*                                                                         *)
(* Processes call build_index_mappings against a shared file system.  A    *)
(* call computes the number of epochs, seeds its generator, derives the    *)
(* three cache file names, tests each one with os.path.isfile and, when    *)
(* one is missing, builds doc_idx, sample_idx and shuffle_idx under the    *)
(* chosen packing policy and writes them with np.save.                     *)
(*                                                                         *)
(* The module also covers get_train_valid_test_split_, the DatasetManager  *)
(* set-up (src/tokensmith/manager.py) and the EditHandler                  *)
(* (src/tokensmith/edit/handler.py), each under a specification of its     *)
(* own.                                                                    *)
(*                                                                         *)
(* Python indices are 0-based; a Python array x is the sequence whose      *)
(* element x[i] is At(x, i).                                               *)
(***************************************************************************)
EXTENDS Integers, Sequences, FiniteSets, TLC

VARIABLES
    files,      \* file system: file name -> [data, complete, by]
    pc,         \* position of each process inside build_index_mappings
    args,       \* arguments of each process's current call
    loc,        \* local variables of each process's current call
    wrote,      \* per process: kind -> array handed to np.save in this call
    calls,      \* arguments of the calls made so far, in call order
    pure_in,    \* input of the pure function under check
    pure_out,   \* its result
    dataset,    \* configuration of the dataset object that makes the calls
    manager,    \* the DatasetManager's attributes
    objects,    \* the dataset objects constructed so far; object i is objects[i]
    corpus,     \* the stored corpus: document -> its tokens
    ret         \* the last call on the manager or its edit handler

vars == <<files, pc, args, loc, wrote, calls, pure_in, pure_out, dataset,
          manager, objects, corpus, ret>>

(***************************************************************************)
(* Bounds of the model.                                                    *)
(***************************************************************************)
MaxSamples == 2          \* num_samples ranges over 0..MaxSamples
MaxTokens == 6           \* tokens_per_epoch of the _num_epochs check
MaxPureSamples == 5      \* num_samples of the _num_epochs check

Procs == {"p1", "p2"}
Kinds == {"doc_idx", "sample_idx", "shuffle_idx"}
Policies == {"packed", "pack_until_overflow", "unpacked", "bogus"}
Seeds == {0, 1, 2}
SeqLengths == {2, 3}
PureSeqLengths == {1, 2, 3, 4}
EpochArgs == {0, 2}      \* 0 stands for a falsy num_epochs (None)

\* sizes of the three documents of the corpus, indexed by document id
SizeTables ==
    { <<1, 2, 5>>, <<2, 1, 1>>, <<5, 1, 2>>, <<5, 5, 5>>, <<1, 1, 1>>, <<2, 5, 1>>,
      <<3, 1, 4>>, <<4, 3, 3>>, <<3, 5, 2>> }

\* the document ids of a split: a contiguous range of the corpus
DocumentRanges == { <<0, 1>>, <<1, 2>>, <<0, 1, 2>> }

\* a label dataset is None or gives, per document id, the number of leading
\* labels equal to -100 (the only thing the masking test reads)
None == <<>>
LabelDatasets == { None, <<0, 0, 0>>, <<5, 0, 1>> }

At(x, i) == x[i + 1]

Min(a, b) == IF a < b THEN a ELSE b

arange(n) == [i \in 1..n |-> i - 1]

RECURSIVE SumSeq(_)
SumSeq(s) == IF s = <<>> THEN 0 ELSE Head(s) + SumSeq(Tail(s))

(***************************************************************************)
(* np.random.RandomState: a seeded generator.  The Mersenne twister is     *)
(* stood for by a full-period linear congruential generator; the shuffle   *)
(* and the bounded draw are numpy's.                                       *)
(***************************************************************************)
RngMod == 256
RngMul == 141
RngInc == 3

RandomStateUnseeded(seed) == (37 * (seed + Len(calls)) + 11) % RngMod

RandomState(seed) == (37 * seed + 11) % RngMod

rk_random(s) == (RngMul * s + RngInc) % RngMod

RECURSIVE Mask(_)
Mask(max) == IF max = 0 THEN 0 ELSE 2 * Mask(max \div 2) + 1

\* rk_interval: a draw in [0, max] by masked rejection sampling
RECURSIVE rk_interval(_, _)
rk_interval(max, s) ==
    IF max = 0 THEN [value |-> 0, rng |-> s]
    ELSE LET s1 == rk_random(s)
             v  == (s1 \div 8) % (Mask(max) + 1)
         IN  IF v > max THEN rk_interval(max, s1) ELSE [value |-> v, rng |-> s1]

Swap(x, i, j) == [x EXCEPT ![i + 1] = At(x, j), ![j + 1] = At(x, i)]

\* RandomState.shuffle on a 1-d array: for i in reversed(range(1, n)) swap
\* x[i] with x[rk_interval(i)]
RECURSIVE ShuffleFrom(_, _, _)
ShuffleFrom(x, i, s) ==
    IF i < 1 THEN [arr |-> x, rng |-> s]
    ELSE LET r == rk_interval(i, s)
         IN  ShuffleFrom(Swap(x, i, r.value), i - 1, r.rng)

shuffle(x, s) == ShuffleFrom(x, Len(x) - 1, s)

(***************************************************************************)
(* The pure functions of the module.                                       *)
(***************************************************************************)
_num_tokens(documents, sizes) ==
    SumSeq([i \in 1..Len(documents) |-> At(sizes, documents[i])])

RECURSIVE NumEpochsLoop(_, _, _, _, _)
NumEpochsLoop(num_epochs, total_tokens, tokens_per_epoch, seq_length, num_samples) ==
    LET n == num_epochs + 1
        t == total_tokens + tokens_per_epoch
    IN  IF ((t - 1) \div seq_length) >= num_samples THEN n
        ELSE NumEpochsLoop(n, t, tokens_per_epoch, seq_length, num_samples)

NumEpochsOffByOne(tokens_per_epoch, seq_length, num_samples) ==
    NumEpochsLoop(0, 0, tokens_per_epoch, seq_length, num_samples + 1)

_num_epochs(tokens_per_epoch, seq_length, num_samples) ==
    NumEpochsLoop(0, 0, tokens_per_epoch, seq_length, num_samples)

\* np.mgrid[0:num_epochs, 0:len(documents)][1] with every row set to
\* documents, flattened row by row
EpochCopies(documents, num_epochs) ==
    [i \in 1..(num_epochs * Len(documents)) |->
        documents[((i - 1) % Len(documents)) + 1]]

BuildDocIdxExtraEpoch(documents, num_epochs, np_rng) ==
    shuffle(EpochCopies(documents, num_epochs + 1), np_rng)

_build_doc_idx(documents, num_epochs, np_rng) ==
    shuffle(EpochCopies(documents, num_epochs), np_rng)

BuildShuffleIdxOneMore(size, np_rng) == shuffle(arange(size + 1), np_rng)

_build_shuffle_idx(size, np_rng) == shuffle(arange(size), np_rng)

(***************************************************************************)
(* helpers.build_sample_idx_int32 of megatron.data (imported at line 134;  *)
(* its code is not part of the repository): walk the token stream of       *)
(* doc_idx and emit a <<doc_idx position, offset>> boundary every          *)
(* seq_length tokens, (num_epochs * tokens_per_epoch - 1) \div seq_length  *)
(* samples in all.                                                         *)
(***************************************************************************)
RECURSIVE SampleWalk(_, _, _, _, _)
SampleWalk(sizes, doc_idx, doc_idx_index, doc_offset, remaining_seq_length) ==
    IF remaining_seq_length = 0 THEN <<doc_idx_index, doc_offset>>
    ELSE LET doc_id     == At(doc_idx, doc_idx_index)
             doc_length == At(sizes, doc_id) - doc_offset
             rem        == remaining_seq_length - doc_length
         IN  IF rem <= 0
             THEN SampleWalk(sizes, doc_idx, doc_idx_index,
                             doc_offset + (rem + doc_length - 1), 0)
             ELSE SampleWalk(sizes, doc_idx, doc_idx_index + 1, 0, rem)

RECURSIVE SampleIdxFrom(_, _, _, _, _)
SampleIdxFrom(sample_idx, sizes, doc_idx, seq_length, num_samples) ==
    IF Len(sample_idx) > num_samples THEN sample_idx
    ELSE LET last == sample_idx[Len(sample_idx)]
         IN  SampleIdxFrom(
                 Append(sample_idx,
                        SampleWalk(sizes, doc_idx, last[1], last[2], seq_length + 1)),
                 sizes, doc_idx, seq_length, num_samples)

build_sample_idx(sizes, doc_idx, seq_length, num_epochs, tokens_per_epoch) ==
    SampleIdxFrom(<< <<0, 0>> >>, sizes, doc_idx, seq_length,
                  (num_epochs * tokens_per_epoch - 1) \div seq_length)

(***************************************************************************)
(* The cache file names (lines 99-110).                                    *)
(***************************************************************************)
FilePrefixNoSeed(a) ==
    a.data_prefix \o "_" \o a.name \o "_indexmap"
        \o "_" \o ToString(a.num_samples) \o "ns"
        \o "_" \o ToString(a.seq_length) \o "sl"
        \o "_" \o a.packing_impl \o "pi"
        \o (IF a.allow_chopped THEN "_ac" ELSE "")

_filename(a) ==
    a.data_prefix \o "_" \o a.name \o "_indexmap"
        \o "_" \o ToString(a.num_samples) \o "ns"
        \o "_" \o ToString(a.seq_length) \o "sl"
        \o "_" \o ToString(a.seed) \o "s"
        \o "_" \o a.packing_impl \o "pi"
        \o (IF a.allow_chopped THEN "_ac" ELSE "")

FileName(a, kind) == _filename(a) \o "_" \o kind \o ".npy"

FileNames(a) == { FileName(a, k) : k \in Kinds }

\* the components of the fingerprint
Fingerprint(a) ==
    <<a.data_prefix, a.name, a.num_samples, a.seq_length, a.seed,
      a.packing_impl, a.allow_chopped>>

\* os.path.isfile
isfile(f) == f \in DOMAIN files

(***************************************************************************)
(* Arguments of a call.                                                    *)
(***************************************************************************)
ArgsWith(prefixes) ==
    [ name          : {"train"},
      data_prefix   : prefixes,
      documents     : DocumentRanges,
      sizes         : SizeTables,
      label_dataset : LabelDatasets,
      num_samples   : 0..MaxSamples,
      num_epochs    : EpochArgs,
      seq_length    : SeqLengths,
      seed          : Seeds,
      packing_impl  : Policies,
      allow_chopped : BOOLEAN ]

BaseArgs(policy) ==
    [name |-> "train", data_prefix |-> "d", documents |-> <<0, 1, 2>>,
     sizes |-> <<1, 2, 5>>, label_dataset |-> <<0, 0, 0>>, num_samples |-> 2,
     num_epochs |-> 0, seq_length |-> 2, seed |-> 0, packing_impl |-> policy,
     allow_chopped |-> TRUE]

\* four documents of sizes 3, 5, 2, 4 and four samples of seq_length 4, with
\* no label dataset or with one that masks nothing
ScenarioArgs(policy) ==
    { [BaseArgs(policy) EXCEPT !.documents = <<0, 1, 2, 3>>,
                               !.sizes = <<3, 5, 2, 4>>,
                               !.label_dataset = labels,
                               !.num_samples = 4,
                               !.seq_length = 4] :
        labels \in {None, <<0, 0, 0, 0>>} }

\* the calls of the single-call specification
BuildArgs == ArgsWith({"d"}) \cup ScenarioArgs("unpacked")

\* the calls that differ from b in at most one argument
Variations(b) ==
    { [b EXCEPT !.data_prefix = v] : v \in {"d", "e"} }
        \cup { [b EXCEPT !.documents = v] : v \in DocumentRanges }
        \cup { [b EXCEPT !.sizes = v] : v \in {<<1, 2, 5>>, <<2, 1, 1>>} }
        \cup { [b EXCEPT !.label_dataset = v] : v \in LabelDatasets }
        \cup { [b EXCEPT !.num_samples = v] : v \in 0..MaxSamples }
        \cup { [b EXCEPT !.num_epochs = v] : v \in EpochArgs }
        \cup { [b EXCEPT !.seq_length = v] : v \in SeqLengths }
        \cup { [b EXCEPT !.seed = v] : v \in Seeds }
        \cup { [b EXCEPT !.packing_impl = v] : v \in Policies }
        \cup { [b EXCEPT !.allow_chopped = v] : v \in BOOLEAN }

\* the calls of the concurrent specification
ConcArgs == Variations(BaseArgs("packed")) \cup Variations(BaseArgs("pack_until_overflow"))

Differing(a, b) == { f \in DOMAIN a : a[f] # b[f] }

NoArgs == [name |-> "", data_prefix |-> "", documents |-> <<>>, sizes |-> <<>>,
           label_dataset |-> <<>>, num_samples |-> 0, num_epochs |-> 0,
           seq_length |-> 0, seed |-> 0, packing_impl |-> "",
           allow_chopped |-> FALSE]

NoLoc == [tokens_per_epoch |-> 0, num_epochs |-> 0, np_rng |-> 0,
          doc_idx |-> <<>>, sample_idx |-> <<>>, shuffle_idx |-> <<>>,
          temp_shuffle_idx |-> <<>>, running_length |-> 0,
          curr_shuffle_idx |-> 0, doc_i |-> 0, exc |-> "", callid |-> 0,
          hit |-> FALSE, present |-> {}, preceded |-> {}]

NoWrites == [k \in {} |-> <<>>]

\* add_extra_token_to_seq: a non-negative integer, 1 unless given
DefaultExtraTokens == 1
ExtraTokens == {0, DefaultExtraTokens, 2}
NoDataset == [add_extra_token_to_seq |-> DefaultExtraTokens]

\* DatasetManager.__init__: the five handlers start as None; the attribute
\* WriteableMMapIndexedDataset does not exist yet (None here).  A handler or
\* a dataset that is set is held as a one-element sequence.
DatasetManager ==
    [edit |-> None, inspect |-> None, sample |-> None, export |-> None,
     search |-> None, WriteableMMapIndexedDataset |-> None]

\* the corpus on disk before any injection: three documents
StoredCorpus == << <<1, 2>>, <<3>>, <<4, 5>> >>

NoCall ==
    [n |-> 0, op |-> "", args |-> <<>>, exc |-> "", value |-> None,
     injected |-> 0, manager_before |-> DatasetManager,
     corpus_before |-> StoredCorpus]

Init ==
    /\ files = [f \in {} |-> <<>>]
    /\ pc = [p \in Procs |-> "idle"]
    /\ args = [p \in Procs |-> NoArgs]
    /\ loc = [p \in Procs |-> NoLoc]
    /\ wrote = [p \in Procs |-> NoWrites]
    /\ calls = <<>>
    /\ pure_in = <<>>
    /\ pure_out = <<>>
    /\ dataset = NoDataset
    /\ manager = DatasetManager
    /\ objects = <<>>
    /\ corpus = StoredCorpus
    /\ ret = NoCall

(***************************************************************************)
(* build_index_mappings, one action per step.                              *)
(***************************************************************************)
SetLoc(p, fields) ==
    [loc EXCEPT ![p] = [f \in DOMAIN loc[p] |->
                          IF f \in DOMAIN fields THEN fields[f] ELSE loc[p][f]]]

Goto(p, label) == pc' = [pc EXCEPT ![p] = label]

\* lines 84-110: tokens per epoch, number of epochs, generator, file names;
\* present and preceded record, for the properties, which of the three files
\* existed and which processes had finished when the call began
Enter(p, a) ==
    /\ LET tokens_per_epoch == _num_tokens(a.documents, a.sizes)
       IN  loc' = [loc EXCEPT ![p] =
                     [NoLoc EXCEPT
                        !.tokens_per_epoch = tokens_per_epoch,
                        !.num_epochs =
                            IF a.num_epochs = 0
                            THEN _num_epochs(tokens_per_epoch, a.seq_length,
                                             a.num_samples)
                            ELSE a.num_epochs,
                        !.np_rng = RandomState(a.seed),
                        !.callid = Len(calls) + 1,
                        !.present = { k \in Kinds : isfile(FileName(a, k)) },
                        !.preceded = { q \in Procs : pc[q] \in {"done", "error"} }]]
    /\ args' = [args EXCEPT ![p] = a]
    /\ calls' = Append(calls, a)
    /\ wrote' = [wrote EXCEPT ![p] = NoWrites]
    /\ Goto(p, "isfile_doc_idx")
    /\ UNCHANGED <<files, pure_in, pure_out, manager, objects, corpus, ret>>

Call(p) == pc[p] = "idle" /\ UNCHANGED dataset /\ \E a \in ConcArgs : Enter(p, a)

\* WriteableMMapIndexedDataset(..., train_seq_len, add_extra_token_to_seq):
\* the dataset object keeps its add_extra_token_to_seq and calls
\* build_index_mappings with seq_length = train_seq_len
WriteableMMapIndexedDataset(add_extra_token_to_seq) ==
    dataset' = [add_extra_token_to_seq |-> add_extra_token_to_seq]

CallBuild(p) ==
    /\ pc[p] = "idle"
    /\ \E e \in ExtraTokens : WriteableMMapIndexedDataset(e)
    /\ \E a \in BuildArgs : Enter(p, a)

CheckedKind(p) ==
    CASE pc[p] = "isfile_doc_idx" -> "doc_idx"
      [] pc[p] = "isfile_sample_idx" -> "sample_idx"
      [] pc[p] = "isfile_shuffle_idx" -> "shuffle_idx"

AfterCheckRebuild(kind) == "dispatch"

\* where the condition of lines 113-117 goes after finding file `kind`
AfterCheck(kind) ==
    CASE kind = "doc_idx" -> "isfile_sample_idx"
      [] kind = "sample_idx" -> "isfile_shuffle_idx"
      [] kind = "shuffle_idx" -> "cached"

\* lines 113-117: one os.path.isfile of the condition
CheckFile(p) ==
    /\ pc[p] \in {"isfile_doc_idx", "isfile_sample_idx", "isfile_shuffle_idx"}
    /\ IF isfile(FileName(args[p], CheckedKind(p)))
       THEN Goto(p, AfterCheck(CheckedKind(p)))
       ELSE Goto(p, "dispatch")
    /\ UNCHANGED <<files, args, loc, wrote, calls, pure_in, pure_out, dataset,
                 manager, objects, corpus, ret>>

\* the condition of line 113 is false: the function ends without building
ReturnCached(p) ==
    /\ pc[p] = "cached"
    /\ loc' = SetLoc(p, [hit |-> TRUE])
    /\ Goto(p, "done")
    /\ UNCHANGED <<files, args, wrote, calls, pure_in, pure_out, dataset,
                 manager, objects, corpus, ret>>

\* lines 124-125
PackedDocIdx(p) ==
    /\ pc[p] = "dispatch"
    /\ args[p].packing_impl = "packed"
    /\ LET r == _build_doc_idx(args[p].documents, loc[p].num_epochs, loc[p].np_rng)
       IN  loc' = SetLoc(p, [doc_idx |-> r.arr, np_rng |-> r.rng])
    /\ Goto(p, "save_doc_idx")
    /\ UNCHANGED <<files, args, wrote, calls, pure_in, pure_out, dataset,
                 manager, objects, corpus, ret>>

\* lines 134-147
PackedSampleIdx(p) ==
    /\ pc[p] = "build_sample_idx"
    /\ loc' = SetLoc(p, [sample_idx |->
                 build_sample_idx(args[p].sizes, loc[p].doc_idx, args[p].seq_length,
                                  loc[p].num_epochs, loc[p].tokens_per_epoch)])
    /\ Goto(p, "save_sample_idx")
    /\ UNCHANGED <<files, args, wrote, calls, pure_in, pure_out, dataset,
                 manager, objects, corpus, ret>>

\* line 157
PackedShuffleIdx(p) ==
    /\ pc[p] = "build_shuffle_idx"
    /\ LET r == _build_shuffle_idx(Len(loc[p].sample_idx) - 1, loc[p].np_rng)
       IN  loc' = SetLoc(p, [shuffle_idx |-> r.arr, np_rng |-> r.rng])
    /\ Goto(p, "save_shuffle_idx")
    /\ UNCHANGED <<files, args, wrote, calls, pure_in, pure_out, dataset,
                 manager, objects, corpus, ret>>

\* not allow_chopped and sizes[d] > seq_length + 1 (lines 175-177, 220-222)
Oversized(a, d) == (~a.allow_chopped) /\ At(a.sizes, d) > a.seq_length + 1

\* np.all(label_dataset.get(d)[:k] == -100): the first k labels of document
\* d (all of them when it has fewer) are -100
Masked(a, d, k) == Min(k, At(a.sizes, d)) <= At(a.label_dataset, d)

Raise(p, exception) ==
    /\ loc' = SetLoc(p, [exc |-> exception])
    /\ Goto(p, "error")

\* lines 175-189: the loop passes over document d without using it
PuoSkips(a, d) ==
    Oversized(a, d) \/ (a.label_dataset # None /\ Masked(a, d, a.seq_length + 1))

OverflowsLate(l, a, doc_length) == l.running_length + doc_length > a.seq_length + 2

\* line 196: the document does not fit in the current sample
Overflows(l, a, doc_length) == l.running_length + doc_length > a.seq_length + 1

PuoMoreInclusive(l, a) == Len(l.sample_idx) <= a.num_samples

\* line 174
PuoMore(l, a) == Len(l.sample_idx) < a.num_samples

UnpMoreStrict(l, a) == Len(l.doc_idx) < a.num_samples

\* line 219
UnpMore(l, a) == Len(l.doc_idx) <= a.num_samples

\* lines 163-173
PuoInit(p) ==
    /\ pc[p] = "dispatch"
    /\ args[p].packing_impl = "pack_until_overflow"
    /\ LET r1 == shuffle(arange(args[p].num_samples), loc[p].np_rng)
           r2 == shuffle(arange(Len(args[p].documents)), r1.rng)
       IN  loc' = SetLoc(p, [shuffle_idx |-> r1.arr, temp_shuffle_idx |-> r2.arr,
                             np_rng |-> r2.rng, sample_idx |-> <<>>,
                             doc_idx |-> <<>>, running_length |-> 0,
                             curr_shuffle_idx |-> 0])
    /\ Goto(p, "puo_loop")
    /\ UNCHANGED <<files, args, wrote, calls, pure_in, pure_out, dataset,
                 manager, objects, corpus, ret>>

\* lines 202-205: advance the cursor, wrap and reshuffle at the end
PuoAdvance(p, fields) ==
    LET curr == loc[p].curr_shuffle_idx + 1
    IN  IF curr = Len(args[p].documents)
        THEN LET r == shuffle(loc[p].temp_shuffle_idx, loc[p].np_rng)
             IN  SetLoc(p, fields @@ [curr_shuffle_idx |-> 0,
                                       temp_shuffle_idx |-> r.arr, np_rng |-> r.rng])
        ELSE SetLoc(p, fields @@ [curr_shuffle_idx |-> curr])

\* lines 174-206: one test of the loop condition and, when it holds, one
\* iteration of the body
PuoIter(p) ==
    /\ pc[p] = "puo_loop"
    /\ LET a     == args[p]
           l     == loc[p]
           curr  == l.curr_shuffle_idx
           d     == At(l.temp_shuffle_idx, curr)
           start == <<Len(l.doc_idx), 0>>
       IN  IF PuoMore(l, a)
           THEN IF curr >= Len(l.temp_shuffle_idx)
                THEN Raise(p, "IndexError")
                ELSE IF PuoSkips(a, d)
                THEN /\ loc' = SetLoc(p, [curr_shuffle_idx |-> curr + 1])
                     /\ UNCHANGED pc
                ELSE LET doc_length == At(a.sizes, d)
                     IN  /\ loc' =
                               IF l.running_length = 0
                               THEN PuoAdvance(p,
                                      [sample_idx |-> Append(l.sample_idx, start),
                                       doc_idx |-> Append(l.doc_idx, d),
                                       running_length |-> l.running_length + doc_length])
                               ELSE IF Overflows(l, a, doc_length)
                               THEN PuoAdvance(p,
                                      [sample_idx |-> Append(l.sample_idx, start),
                                       doc_idx |-> Append(l.doc_idx, d),
                                       running_length |-> doc_length])
                               ELSE PuoAdvance(p,
                                      [doc_idx |-> Append(l.doc_idx, d),
                                       running_length |-> l.running_length + doc_length])
                         /\ UNCHANGED pc
           ELSE /\ loc' = SetLoc(p, [sample_idx |-> Append(l.sample_idx, start)])
                /\ Goto(p, "save_doc_idx")
    /\ UNCHANGED <<files, args, wrote, calls, pure_in, pure_out, dataset,
                 manager, objects, corpus, ret>>

\* lines 210-218
UnpInit(p) ==
    /\ pc[p] = "dispatch"
    /\ args[p].packing_impl = "unpacked"
    /\ LET r == shuffle(arange(args[p].num_samples), loc[p].np_rng)
       IN  loc' = SetLoc(p, [shuffle_idx |-> r.arr, np_rng |-> r.rng,
                             sample_idx |-> [i \in 1..(args[p].num_samples + 1) |->
                                               <<i - 1, 0>>],
                             doc_idx |-> <<>>, doc_i |-> 0])
    /\ Goto(p, "unp_loop")
    /\ UNCHANGED <<files, args, wrote, calls, pure_in, pure_out, dataset,
                 manager, objects, corpus, ret>>

\* lines 219-230: one test of the loop condition and, when it holds, one
\* iteration of the body
UnpIter(p) ==
    /\ pc[p] = "unp_loop"
    /\ LET a    == args[p]
           l    == loc[p]
           next == (l.doc_i + 1) % Len(a.documents)
       IN  IF UnpMore(l, a)
           THEN IF Oversized(a, l.doc_i)
                THEN loc' = SetLoc(p, [doc_i |-> next]) /\ UNCHANGED pc
                ELSE IF a.label_dataset = None
                THEN Raise(p, "AttributeError")
                ELSE IF Masked(a, l.doc_i, a.seq_length)
                THEN loc' = SetLoc(p, [doc_i |-> next]) /\ UNCHANGED pc
                ELSE /\ loc' = SetLoc(p, [doc_idx |-> Append(l.doc_idx, l.doc_i),
                                          doc_i |-> next])
                     /\ UNCHANGED pc
           ELSE Goto(p, "save_doc_idx") /\ UNCHANGED loc
    /\ UNCHANGED <<files, args, wrote, calls, pure_in, pure_out, dataset,
                 manager, objects, corpus, ret>>

\* line 124, 163, 210: no branch of the dispatch matches packing_impl
NoPolicy(p) ==
    /\ pc[p] = "dispatch"
    /\ args[p].packing_impl \notin {"packed", "pack_until_overflow", "unpacked"}
    /\ Goto(p, "done")
    /\ UNCHANGED <<files, args, loc, wrote, calls, pure_in, pure_out, dataset,
                 manager, objects, corpus, ret>>

SavedKind(p) ==
    CASE pc[p] \in {"save_doc_idx", "write_doc_idx"} -> "doc_idx"
      [] pc[p] \in {"save_sample_idx", "write_sample_idx"} -> "sample_idx"
      [] pc[p] \in {"save_shuffle_idx", "write_shuffle_idx"} -> "shuffle_idx"

\* np.save, first half: open(file, "wb") creates or truncates the file
\* under its final name
NpSaveOpen(p) ==
    /\ pc[p] \in {"save_doc_idx", "save_sample_idx", "save_shuffle_idx"}
    /\ LET kind == SavedKind(p)
           f    == FileName(args[p], kind)
       IN  /\ files' = [g \in DOMAIN files \cup {f} |->
                          IF g = f
                          THEN [data |-> <<>>, complete |-> FALSE,
                                by |-> loc[p].callid]
                          ELSE files[g]]
           /\ wrote' = [wrote EXCEPT ![p] = (kind :> loc[p][kind]) @@ wrote[p]]
           /\ Goto(p, "write_" \o kind)
    /\ UNCHANGED <<args, loc, calls, pure_in, pure_out, dataset,
                 manager, objects, corpus, ret>>

\* the statement after each np.save (lines 126-158, 207-209, 231-233)
AfterSave(policy, kind) ==
    CASE kind = "doc_idx" ->
            IF policy = "packed" THEN "build_sample_idx" ELSE "save_sample_idx"
      [] kind = "sample_idx" ->
            IF policy = "packed" THEN "build_shuffle_idx" ELSE "save_shuffle_idx"
      [] kind = "shuffle_idx" -> "done"

\* np.save, second half: write the array and close the file
NpSaveWrite(p) ==
    /\ pc[p] \in {"write_doc_idx", "write_sample_idx", "write_shuffle_idx"}
    /\ LET kind == SavedKind(p)
           f    == FileName(args[p], kind)
       IN  /\ files' = [files EXCEPT ![f] = [data |-> loc[p][kind], complete |-> TRUE,
                                             by |-> loc[p].callid]]
           /\ Goto(p, AfterSave(args[p].packing_impl, kind))
    /\ UNCHANGED <<args, loc, wrote, calls, pure_in, pure_out, dataset,
                 manager, objects, corpus, ret>>

Build(p) ==
    \/ PackedDocIdx(p)
    \/ PackedSampleIdx(p)
    \/ PackedShuffleIdx(p)
    \/ PuoInit(p)
    \/ PuoIter(p)
    \/ UnpInit(p)
    \/ UnpIter(p)
    \/ NoPolicy(p)
    \/ NpSaveOpen(p)
    \/ NpSaveWrite(p)

\* processes that each call build_index_mappings once, concurrently
Next == \E p \in Procs : Call(p) \/ CheckFile(p) \/ ReturnCached(p) \/ Build(p)

Spec == Init /\ [][Next]_vars

\* one call of build_index_mappings on an empty cache directory
NextBuild == CallBuild("p1") \/ CheckFile("p1") \/ Build("p1")

SpecBuild == Init /\ [][NextBuild]_vars

\* the calls of the walk specification: pack_until_overflow and unpacked over
\* documents of which all, some or none are oversized or fully masked
WalkArgs ==
    { [BaseArgs(policy) EXCEPT !.sizes = sizes,
                               !.label_dataset = labels,
                               !.num_samples = num_samples,
                               !.allow_chopped = allow_chopped] :
        policy \in {"pack_until_overflow", "unpacked"},
        sizes \in {<<5, 5, 5>>, <<1, 2, 5>>, <<1, 1, 1>>},
        labels \in LabelDatasets \cup {<<5, 5, 5>>},
        num_samples \in 1..MaxSamples,
        allow_chopped \in BOOLEAN }

CallWalk(p) == pc[p] = "idle" /\ UNCHANGED dataset /\ \E a \in WalkArgs : Enter(p, a)

\* one call under pack_until_overflow or unpacked on an empty cache
\* directory, run to its end: the interpreter keeps taking the next step of
\* the call until it returns or raises
NextWalk ==
    \/ CallWalk("p1")
    \/ CheckFile("p1")
    \/ PuoInit("p1")
    \/ PuoIter("p1")
    \/ UnpInit("p1")
    \/ UnpIter("p1")
    \/ NpSaveOpen("p1")
    \/ NpSaveWrite("p1")

SpecWalk == Init /\ [][NextWalk]_vars /\ WF_vars(NextWalk)

(***************************************************************************)
(* _num_epochs on its own: the inputs are drawn at the start and the       *)
(* function is applied once.                                               *)
(***************************************************************************)
InitNumEpochs ==
    /\ files = [f \in {} |-> <<>>]
    /\ pc = [p \in Procs |-> "idle"]
    /\ args = [p \in Procs |-> NoArgs]
    /\ loc = [p \in Procs |-> NoLoc]
    /\ wrote = [p \in Procs |-> NoWrites]
    /\ calls = <<>>
    /\ pure_in \in [tokens_per_epoch : 1..MaxTokens, seq_length : PureSeqLengths,
                    num_samples : 0..MaxPureSamples]
    /\ pure_out = <<>>
    /\ dataset = NoDataset
    /\ manager = DatasetManager
    /\ objects = <<>>
    /\ corpus = StoredCorpus
    /\ ret = NoCall

ApplyNumEpochs ==
    /\ pure_out = <<>>
    /\ pure_out' = <<_num_epochs(pure_in.tokens_per_epoch, pure_in.seq_length,
                                 pure_in.num_samples)>>
    /\ UNCHANGED <<files, pc, args, loc, wrote, calls, pure_in, dataset,
                 manager, objects, corpus, ret>>

NextNumEpochs == ApplyNumEpochs

SpecNumEpochs == InitNumEpochs /\ [][NextNumEpochs]_vars

(***************************************************************************)
(* get_train_valid_test_split_ (lines 235-261).  A Python string is the    *)
(* sequence of its characters.  The floats of the function are exact       *)
(* rationals here: a split is the pair of its numerator and splits_sum.    *)
(***************************************************************************)
MaxFields == 4           \* fields of a generated ratio string
MaxSize == 6             \* size ranges over 0..MaxSize

Digits == {"0", "1", "2", "3", "4", "5", "6", "7", "8", "9"}

DigitValue(c) ==
    CASE c = "0" -> 0 [] c = "1" -> 1 [] c = "2" -> 2 [] c = "3" -> 3
      [] c = "4" -> 4 [] c = "5" -> 5 [] c = "6" -> 6 [] c = "7" -> 7
      [] c = "8" -> 8 [] c = "9" -> 9

\* splits_string.find(c) != -1
Contains(string, c) == \E i \in 1..Len(string) : string[i] = c

\* str.split(sep) for a one-character sep: the fields between the
\* separators, empty ones included
RECURSIVE SplitFrom(_, _, _, _)
SplitFrom(string, sep, field, fields) ==
    IF string = <<>> THEN Append(fields, field)
    ELSE IF Head(string) = sep
    THEN SplitFrom(Tail(string), sep, <<>>, Append(fields, field))
    ELSE SplitFrom(Tail(string), sep, Append(field, Head(string)), fields)

split(string, sep) == SplitFrom(string, sep, <<>>, <<>>)

\* float(s) accepts s: of the strings over digits, "," and "/" these are the
\* non-empty strings of digits
IsFloat(string) == string # <<>> /\ \A i \in 1..Len(string) : string[i] \in Digits

RECURSIVE DecimalValue(_, _)
DecimalValue(string, value) ==
    IF string = <<>> THEN value
    ELSE DecimalValue(Tail(string), 10 * value + DigitValue(Head(string)))

float(string) == DecimalValue(string, 0)

\* lines 241-246
Fields(splits_string) ==
    IF Contains(splits_string, ",") THEN split(splits_string, ",")
    ELSE IF Contains(splits_string, "/") THEN split(splits_string, "/")
    ELSE <<splits_string>>

PadWithOnes(splits) ==
    IF Len(splits) < 3 THEN splits \o [i \in 1..(3 - Len(splits)) |-> 1] ELSE splits

\* lines 247-248
PadWithZeros(splits) ==
    IF Len(splits) < 3 THEN splits \o [i \in 1..(3 - Len(splits)) |-> 0] ELSE splits

KeepAll(splits) == splits

\* line 249: splits[:3]
FirstThree(splits) == SubSeq(splits, 1, Min(3, Len(splits)))

\* int(round(n / d)) for n >= 0 and d > 0: Python rounds a half to the even
\* neighbour
RoundHalfEven(n, d) ==
    LET q == n \div d
        r == n % d
    IN  IF 2 * r < d THEN q
        ELSE IF 2 * r > d THEN q + 1
        ELSE IF q % 2 = 0 THEN q ELSE q + 1

\* lines 253-255
RECURSIVE CumulativeIndex(_, _, _, _)
CumulativeIndex(splits_index, splits, splits_sum, size) ==
    IF splits = <<>> THEN splits_index
    ELSE CumulativeIndex(
             Append(splits_index,
                    splits_index[Len(splits_index)]
                        + RoundHalfEven(Head(splits) * size, splits_sum)),
             Tail(splits), splits_sum, size)

SubtractDiffFromAll(splits_index, diff) ==
    [index \in 1..Len(splits_index) |-> splits_index[index] - diff]

\* lines 257-258: for index in range(1, len(splits_index))
SubtractDiff(splits_index, diff) ==
    [index \in 1..Len(splits_index) |->
        IF index = 1 THEN splits_index[index] ELSE splits_index[index] - diff]

Raised(exception) == [exc |-> exception, value |-> <<>>]

Returned(value) == [exc |-> "", value |-> value]

get_train_valid_test_split_(splits_string, size) ==
    LET fields == Fields(splits_string)
    IN  IF \E i \in 1..Len(fields) : ~IsFloat(fields[i]) THEN Raised("ValueError")
        ELSE
        LET splits     == FirstThree(PadWithZeros([i \in 1..Len(fields) |->
                                                      float(fields[i])]))
            splits_sum == SumSeq(splits)
        IN  IF ~(splits_sum > 0) THEN Raised("AssertionError")
            ELSE
            LET cumulative   == CumulativeIndex(<<0>>, splits, splits_sum, size)
                diff         == cumulative[Len(cumulative)] - size
                splits_index == SubtractDiff(cumulative, diff)
            IN  IF Len(splits_index) # 4 THEN Raised("AssertionError")
                ELSE IF splits_index[Len(splits_index)] # size
                THEN Raised("AssertionError")
                ELSE Returned(splits_index)

\* the inputs: ratio strings of up to MaxFields fields, each empty or a
\* number, joined by "," or "/", and the ratio "969,30,1" for 1000 documents
FieldStrings == { <<>>, <<"0">>, <<"1">>, <<"3">> }
Separators == {",", "/"}

RECURSIVE Join(_, _)
Join(fields, seps) ==
    IF Len(fields) = 1 THEN fields[1]
    ELSE fields[1] \o <<seps[1]>> \o Join(Tail(fields), Tail(seps))

RatioStrings ==
    UNION { { Join(fields, seps) :
                fields \in [1..n -> FieldStrings], seps \in [1..(n - 1) -> Separators] } :
            n \in 1..MaxFields }

DefaultSplit ==
    [splits_string |-> <<"9", "6", "9", ",", "3", "0", ",", "1">>, size |-> 1000]

SplitInputs ==
    [splits_string : RatioStrings, size : 0..MaxSize] \cup {DefaultSplit}

InitSplit ==
    /\ files = [f \in {} |-> <<>>]
    /\ pc = [p \in Procs |-> "idle"]
    /\ args = [p \in Procs |-> NoArgs]
    /\ loc = [p \in Procs |-> NoLoc]
    /\ wrote = [p \in Procs |-> NoWrites]
    /\ calls = <<>>
    /\ pure_in \in SplitInputs
    /\ pure_out = <<>>
    /\ dataset = NoDataset
    /\ manager = DatasetManager
    /\ objects = <<>>
    /\ corpus = StoredCorpus
    /\ ret = NoCall

ApplySplit ==
    /\ pure_out = <<>>
    /\ pure_out' = <<get_train_valid_test_split_(pure_in.splits_string, pure_in.size)>>
    /\ UNCHANGED <<files, pc, args, loc, wrote, calls, pure_in, dataset,
                 manager, objects, corpus, ret>>

NextSplit == ApplySplit

SpecSplit == InitSplit /\ [][NextSplit]_vars

(***************************************************************************)
(* DatasetManager (src/tokensmith/manager.py) and its EditHandler          *)
(* (src/tokensmith/edit/handler.py).  One caller makes calls on one        *)
(* manager, each call is one step: set-up of the search handler, set-up    *)
(* of the edit, inspect, sample and export handlers, a manual reset of a   *)
(* handler attribute, and the edit handler's inject_and_preview,           *)
(* inject_multiple_samples and validate_injection_location.                *)
(*                                                                         *)
(* A Python value whose type matters is the pair <<type, value>>; an       *)
(* optional value is None or the one-element sequence Some(value).         *)
(***************************************************************************)
MaxCalls == 4

MaxInjections == 2

Some(x) == <<x>>

isinstance(x, type) == x[1] = type

getattr(object, name) ==
    IF name \in DOMAIN object THEN Returned(object[name])
    ELSE Raised("AttributeError")

RECURSIVE concatenate(_)
concatenate(arrays) ==
    IF arrays = <<>> THEN <<>> ELSE Head(arrays) \o concatenate(Tail(arrays))

(***************************************************************************)
(* The tokenizer: tokenizer(text)["input_ids"] gives one token per         *)
(* character, the call may fail, and eos_token_id may be None.             *)
(***************************************************************************)
EosToken == 9

Encode(character) ==
    CASE character = "a" -> 7
      [] character = "b" -> 8
      [] character = "." -> EosToken

input_ids(text) == [i \in 1..Len(text) |-> Encode(text[i])]

Tokenizers ==
    { None,
      Some([fails |-> FALSE, eos_token_id |-> Some(EosToken)]),
      Some([fails |-> FALSE, eos_token_id |-> None]),
      Some([fails |-> TRUE, eos_token_id |-> None]) }

Texts == { <<"str", <<"a", "b">>>>, <<"str", <<"b", ".">>>>, <<"bytes", <<"a">>>> }

Locations == { <<"int", n>> : n \in -1..2 } \cup { <<"float", 1>> }

InjectionTypes == {"seq_shuffle", "seq_start", "seq_end"}

\* np.random.Generator: the draws the dataset takes from it, and whether
\* the storage accepts the write
Generators ==
    { [segment |-> 0, offset |-> 0, fails |-> FALSE],
      [segment |-> 1, offset |-> 1, fails |-> FALSE],
      [segment |-> 0, offset |-> 1, fails |-> TRUE] }

(***************************************************************************)
(* The dataset object of tokensmith/utils.py.  Its samples are fixed by    *)
(* the index arrays built at construction: sample 0 is made of the         *)
(* documents 0 and 1, sample 1 of the document 2, and the object serves    *)
(* train_iters * train_batch_size of them (the batch size is 1 here).      *)
(***************************************************************************)
SampleDocuments == << <<0, 1>>, <<2>> >>

NewWriteableMMapIndexedDataset(train_iters, train_seq_len, add_extra_token_to_seq) ==
    IF train_seq_len <= 0 \/ add_extra_token_to_seq < 0
    THEN Raised("ValueError")
    ELSE Returned([train_seq_len |-> train_seq_len,
                   add_extra_token_to_seq |-> add_extra_token_to_seq,
                   samples |-> SubSeq(SampleDocuments, 1,
                                      Min(train_iters, Len(SampleDocuments)))])

num_samples(ds) == Len(ds.samples)

\* the segments of sample example_loc, read from the corpus c
get_example_by_id(ds, c, example_loc) ==
    IF example_loc < num_samples(ds)
    THEN LET docs == At(ds.samples, example_loc)
         IN  Returned([d \in 1..Len(docs) |-> At(c, docs[d])])
    ELSE Raised("IndexError")

Overwrite(tokens, offset, data) ==
    [i \in 1..Len(tokens) |->
        IF offset < i /\ i <= offset + Len(data) THEN data[i - offset]
        ELSE tokens[i]]

\* seq_start overwrites the start of the sample's first segment; otherwise
\* a segment and an offset are drawn from rng; nothing is stored on a dry
\* run or when the storage fails
inject_example_into_corpus(ds, c, injection_loc, injection_data, injection_type, rng, dry_run) ==
    LET docs   == At(ds.samples, injection_loc)
        doc    == IF injection_type = "seq_start" THEN docs[1]
                  ELSE docs[1 + (rng.segment % Len(docs))]
        offset == IF injection_type = "seq_start" THEN 0
                  ELSE rng.offset % Len(At(c, doc))
    IN  IF rng.fails THEN [exc |-> "OSError", corpus |-> c]
        ELSE [exc |-> "",
              corpus |-> IF dry_run THEN c
                         ELSE [c EXCEPT ![doc + 1] =
                                 Overwrite(At(c, doc), offset, injection_data)]]

(***************************************************************************)
(* EditHandler.                                                            *)
(***************************************************************************)
EditHandler(m) == [class |-> "EditHandler", manager |-> m]

InspectHandler(m) == [class |-> "InspectHandler", manager |-> m]

SampleHandler(m) == [class |-> "SampleHandler", manager |-> m]

ExportHandler(m) == [class |-> "ExportHandler", manager |-> m]

\* the outcome of a call of the edit handler: the exception raised or the
\* value returned, the corpus it leaves, and how many times it called
\* inject_example_into_corpus
Outcome(exc, value, c, injected) ==
    [exc |-> exc, value |-> value, corpus |-> c, injected |-> injected]

AnyInjectionType(injection_type) == TRUE

\* line 60
ValidInjectionType(injection_type) ==
    injection_type \in {"seq_shuffle", "seq_start"}

\* lines 70-76
AddEos(dummy_sample, tokenizer, add_eos_token) ==
    IF add_eos_token /\ tokenizer.eos_token_id # None
    THEN IF Len(dummy_sample) > 0
            /\ dummy_sample[Len(dummy_sample)] = tokenizer.eos_token_id[1]
         THEN dummy_sample
         ELSE Append(dummy_sample, tokenizer.eos_token_id[1])
    ELSE dummy_sample

PassedDryRunOff(dry_run) == FALSE

\* line 110: the dry_run handed to inject_example_into_corpus
PassedDryRun(dry_run) == dry_run

\* lines 133-150
InjectionResult(injection_loc, injection_type, dry_run, text, dummy_sample, orig_sample, edited_sample) ==
    [injection_location |-> injection_loc,
     injection_type |-> injection_type,
     dry_run |-> dry_run,
     injected_text |-> text,
     injected_tokens |-> dummy_sample,
     original_sample |-> [raw_tokens |-> concatenate(orig_sample),
                          num_documents |-> Len(orig_sample)],
     modified_sample |-> [raw_tokens |-> concatenate(edited_sample),
                          num_documents |-> Len(edited_sample)]]

\* lines 53-150, on the corpus c
inject_and_preview(self, text, tokenizer, injection_loc, injection_type, rng, add_eos_token, dry_run, return_details, c) ==
    IF ~isinstance(text, "str") THEN Outcome("ValueError", None, c, 0)
    ELSE IF tokenizer = None THEN Outcome("ValueError", None, c, 0)
    ELSE IF ~isinstance(injection_loc, "int") \/ injection_loc[2] < 0
    THEN Outcome("ValueError", None, c, 0)
    ELSE IF ~ValidInjectionType(injection_type)
    THEN Outcome("ValueError", None, c, 0)
    ELSE IF tokenizer[1].fails THEN Outcome("ValueError", None, c, 0)
    ELSE IF manager.WriteableMMapIndexedDataset = None
    THEN Outcome("AttributeError", None, c, 0)
    ELSE
    LET dummy_sample == AddEos(input_ids(text[2]), tokenizer[1], add_eos_token)
        ds           == objects[manager.WriteableMMapIndexedDataset[1]]
        orig_sample  == get_example_by_id(ds, c, injection_loc[2])
        injection    == inject_example_into_corpus(
                            ds, c, injection_loc[2], dummy_sample,
                            injection_type, rng, PassedDryRun(dry_run))
        edited_sample == get_example_by_id(ds, injection.corpus,
                                           injection_loc[2])
    IN  IF orig_sample.exc # "" THEN Outcome("ValueError", None, c, 0)
        ELSE IF injection.exc # "" THEN Outcome("ValueError", None, c, 1)
        ELSE IF edited_sample.exc # ""
        THEN Outcome("ValueError", None, injection.corpus, 1)
        ELSE Outcome("",
                     IF return_details
                     THEN Some(InjectionResult(
                              injection_loc[2], injection_type, dry_run, text[2],
                              dummy_sample, orig_sample.value,
                              edited_sample.value))
                     ELSE None,
                     injection.corpus, 1)

ErrorRecordOfNext(i) ==
    [error |-> "Failed to process injection", injection_index |-> i + 1]

\* line 220
ErrorRecord(i) == [error |-> "Failed to process injection", injection_index |-> i]

\* lines 190-222: the loop from specification i on
RECURSIVE InjectEach(_, _, _, _, _, _, _, _, _, _, _)
InjectEach(self, injections, i, tokenizer, rngs, add_eos_token, dry_run, return_details, c, results, injected) ==
    IF i = Len(injections)
    THEN Outcome("", IF return_details THEN Some(results) ELSE None, c, injected)
    ELSE
    LET injection == At(injections, i)
    IN  IF ~isinstance(injection, "dict")
        THEN Outcome("ValueError", None, c, injected)
        ELSE IF "text" \notin DOMAIN injection[2]
                \/ "injection_loc" \notin DOMAIN injection[2]
        THEN Outcome("ValueError", None, c, injected)
        ELSE
        LET injection_type ==
                IF "injection_type" \in DOMAIN injection[2]
                THEN injection[2].injection_type ELSE "seq_shuffle"
            result == inject_and_preview(
                          self, injection[2].text, tokenizer,
                          injection[2].injection_loc, injection_type,
                          At(rngs, i), add_eos_token, dry_run, TRUE, c)
        IN  InjectEach(self, injections, i + 1, tokenizer, rngs,
                       add_eos_token, dry_run, return_details, result.corpus,
                       IF ~return_details THEN results
                       ELSE IF result.exc = ""
                       THEN Append(results, result.value[1])
                       ELSE Append(results, ErrorRecord(i)),
                       injected + result.injected)

\* lines 182-225, on the corpus c
inject_multiple_samples(self, injections, tokenizer, rngs, add_eos_token, dry_run, return_details, c) ==
    IF ~isinstance(injections, "list") THEN Outcome("ValueError", None, c, 0)
    ELSE IF injections[2] = <<>> THEN Outcome("ValueError", None, c, 0)
    ELSE IF tokenizer = None THEN Outcome("ValueError", None, c, 0)
    ELSE InjectEach(self, injections[2], 0, tokenizer, rngs, add_eos_token,
                    dry_run, return_details, c, <<>>, 0)

\* lines 284-290: the attribute is looked up on the handler itself
validate_injection_location(self, injection_loc) ==
    IF ~isinstance(injection_loc, "int") \/ injection_loc[2] < 0 THEN FALSE
    ELSE LET attribute == getattr(self, "WriteableMMapIndexedDataset")
         IN  IF attribute.exc # "" THEN FALSE
             ELSE injection_loc[2] < num_samples(objects[attribute.value[1]])

(***************************************************************************)
(* DatasetManager's set-up methods.                                        *)
(***************************************************************************)
\* SearchHandler.__init__ (src/tokensmith/search/handler.py, lines 9-41)
\* (2**32, the other accepted vocab, is beyond the checker's integers and is
\* not among the inputs)
SearchHandler(vocab, reuse, index_exists) ==
    IF vocab \notin {65536} THEN Raised("ValueError")
    ELSE IF reuse /\ ~index_exists THEN Raised("ValueError")
    ELSE Returned([class |-> "SearchHandler", vocab |-> vocab])

\* lines 43-56
setup_search(m, vocab, reuse, index_exists) ==
    IF m.search = None
    THEN LET handler == SearchHandler(vocab, reuse, index_exists)
         IN  IF handler.exc # "" THEN [exc |-> handler.exc, manager |-> m]
             ELSE [exc |-> "", manager |-> [m EXCEPT !.search = Some(handler.value)]]
    ELSE [exc |-> "ValueError", manager |-> m]

Handlers == <<"edit", "inspect", "sample", "export">>

NewHandler(attribute, m) ==
    CASE attribute = "edit" -> EditHandler(m)
      [] attribute = "inspect" -> InspectHandler(m)
      [] attribute = "sample" -> SampleHandler(m)
      [] attribute = "export" -> ExportHandler(m)

NeverInitialized(m, attribute) == FALSE

\* the tests of lines 102, 107, 112 and 117
AlreadyInitialized(m, attribute) == m[attribute] # None

\* lines 102-120: the four handlers are set one after the other
RECURSIVE SetHandlers(_, _)
SetHandlers(m, attributes) ==
    IF attributes = <<>> THEN [exc |-> "", manager |-> m]
    ELSE IF AlreadyInitialized(m, Head(attributes))
    THEN [exc |-> "ValueError", manager |-> m]
    ELSE SetHandlers(
             [m EXCEPT ![Head(attributes)] = Some(NewHandler(Head(attributes), "self"))],
             Tail(attributes))

\* lines 89-120; objs are the dataset objects constructed so far
setup_edit_inspect_sample_export(m, objs, train_iters, train_seq_len, add_extra_token_to_seq) ==
    LET constructed == NewWriteableMMapIndexedDataset(
                           train_iters, train_seq_len, add_extra_token_to_seq)
    IN  IF constructed.exc # ""
        THEN [exc |-> constructed.exc, manager |-> m, objects |-> objs]
        ELSE LET set == SetHandlers(
                           [m EXCEPT !.WriteableMMapIndexedDataset =
                                         Some(Len(objs) + 1)],
                           Handlers)
             IN  [exc |-> set.exc, manager |-> set.manager,
                  objects |-> Append(objs, constructed.value)]

(***************************************************************************)
(* The calls, one action each.                                             *)
(***************************************************************************)
Called(op, a, exc, value, injected) ==
    ret' = [n |-> ret.n + 1, op |-> op, args |-> a, exc |-> exc,
            value |-> value, injected |-> injected,
            manager_before |-> manager, corpus_before |-> corpus]

SetupSearch ==
    /\ ret.n < MaxCalls
    /\ \E vocab \in {65536, 50257}, reuse \in BOOLEAN, index_exists \in BOOLEAN :
          LET r == setup_search(manager, vocab, reuse, index_exists)
          IN  /\ manager' = r.manager
              /\ Called("setup_search", [vocab |-> vocab], r.exc, None, 0)
    /\ UNCHANGED <<files, pc, args, loc, wrote, calls, pure_in, pure_out,
                   dataset, objects, corpus>>

TrainIters == 0..2

TrainSeqLens == {0, 4}

SetupEditInspectSampleExport ==
    /\ ret.n < MaxCalls
    /\ \E train_iters \in TrainIters, train_seq_len \in TrainSeqLens,
          add_extra_token_to_seq \in {-1, DefaultExtraTokens} :
          LET r == setup_edit_inspect_sample_export(
                       manager, objects, train_iters, train_seq_len,
                       add_extra_token_to_seq)
          IN  /\ manager' = r.manager
              /\ objects' = r.objects
              /\ Called("setup_edit_inspect_sample_export",
                        [train_iters |-> train_iters,
                         train_seq_len |-> train_seq_len,
                         add_extra_token_to_seq |-> add_extra_token_to_seq],
                        r.exc, None, 0)
    /\ UNCHANGED <<files, pc, args, loc, wrote, calls, pure_in, pure_out,
                   dataset, corpus>>

\* "reset `edit` manually": the caller sets a handler attribute back to None
ManualReset ==
    /\ ret.n < MaxCalls
    /\ \E attribute \in DOMAIN DatasetManager \ {"WriteableMMapIndexedDataset"} :
          /\ manager[attribute] # None
          /\ manager' = [manager EXCEPT ![attribute] = None]
          /\ Called("reset", [attribute |-> attribute], "", None, 0)
    /\ UNCHANGED <<files, pc, args, loc, wrote, calls, pure_in, pure_out,
                   dataset, objects, corpus>>

InjectAndPreview ==
    /\ ret = NoCall
    /\ manager.edit # None
    /\ \E text \in Texts, tokenizer \in Tokenizers, injection_loc \in Locations,
          injection_type \in InjectionTypes, rng \in Generators,
          add_eos_token \in BOOLEAN, dry_run \in BOOLEAN,
          return_details \in BOOLEAN :
          LET r == inject_and_preview(
                       manager.edit[1], text, tokenizer, injection_loc,
                       injection_type, rng, add_eos_token, dry_run,
                       return_details, corpus)
          IN  /\ corpus' = r.corpus
              /\ Called("inject_and_preview",
                        [text |-> text, tokenizer |-> tokenizer,
                         injection_loc |-> injection_loc,
                         injection_type |-> injection_type,
                         fails |-> rng.fails, dry_run |-> dry_run,
                         return_details |-> return_details],
                        r.exc, r.value, r.injected)
    /\ UNCHANGED <<files, pc, args, loc, wrote, calls, pure_in, pure_out,
                   dataset, manager, objects>>

\* the injection specifications a caller may hand over: dictionaries with
\* or without their keys, and one value that is no dictionary
Specifications ==
    { <<"dict", [text |-> <<"str", <<"a">>>>, injection_loc |-> l]>> :
        l \in { <<"int", 0>>, <<"int", 2>> } }
    \cup { <<"dict", [text |-> <<"str", <<"a", "b">>>>, injection_loc |-> <<"int", 1>>,
                      injection_type |-> t]>> : t \in {"seq_start", "seq_end"} }
    \cup { <<"dict", [text |-> <<"str", <<"a">>>>]>>, <<"str", <<"a">>>> }

InjectionLists ==
    { <<"list", l>> :
        l \in UNION { [1..n -> Specifications] : n \in 0..MaxInjections } }
    \cup { <<"dict", <<>>>> }

InjectMultipleSamples ==
    /\ ret = NoCall
    /\ manager.edit # None
    /\ \E injections \in InjectionLists,
          tokenizer \in Tokenizers \ {Some([fails |-> FALSE, eos_token_id |-> None])},
          rng \in Generators, dry_run \in BOOLEAN, return_details \in BOOLEAN :
          LET rngs == [i \in 1..Len(injections[2]) |-> rng]
              r    == inject_multiple_samples(
                          manager.edit[1], injections, tokenizer, rngs, TRUE,
                          dry_run, return_details, corpus)
          IN  /\ corpus' = r.corpus
              /\ Called("inject_multiple_samples",
                        [injections |-> injections, tokenizer |-> tokenizer,
                         fails |-> rng.fails, dry_run |-> dry_run,
                         return_details |-> return_details],
                        r.exc, r.value, r.injected)
    /\ UNCHANGED <<files, pc, args, loc, wrote, calls, pure_in, pure_out,
                   dataset, manager, objects>>

ValidateInjectionLocation ==
    /\ ret.n < MaxCalls
    /\ manager.edit # None
    /\ \E injection_loc \in Locations :
          Called("validate_injection_location",
                 [injection_loc |-> injection_loc], "",
                 Some(validate_injection_location(manager.edit[1], injection_loc)),
                 0)
    /\ UNCHANGED <<files, pc, args, loc, wrote, calls, pure_in, pure_out,
                   dataset, manager, objects, corpus>>

NextManager ==
    \/ SetupSearch
    \/ SetupEditInspectSampleExport
    \/ ManualReset
    \/ ValidateInjectionLocation

SpecManager == Init /\ [][NextManager]_vars

\* One call of the edit handler of a manager that has been set up over a
\* dataset of one or two samples, on the stored corpus or on the corpus an
\* earlier injection has left.
InjectedCorpus ==
    LET ds == NewWriteableMMapIndexedDataset(2, 4, DefaultExtraTokens).value
    IN  inject_example_into_corpus(
            ds, StoredCorpus, 1, <<7, 8>>, "seq_start",
            [segment |-> 0, offset |-> 0, fails |-> FALSE], FALSE).corpus

InitEdit ==
    /\ files = [f \in {} |-> <<>>]
    /\ pc = [p \in Procs |-> "idle"]
    /\ args = [p \in Procs |-> NoArgs]
    /\ loc = [p \in Procs |-> NoLoc]
    /\ wrote = [p \in Procs |-> NoWrites]
    /\ calls = <<>>
    /\ pure_in = <<>>
    /\ pure_out = <<>>
    /\ dataset = NoDataset
    /\ \E train_iters \in TrainIters \ {0} :
          LET r == setup_edit_inspect_sample_export(
                       DatasetManager, <<>>, train_iters, 4, DefaultExtraTokens)
          IN  manager = r.manager /\ objects = r.objects
    /\ corpus \in {StoredCorpus, InjectedCorpus}
    /\ ret = NoCall

NextEdit == InjectAndPreview \/ InjectMultipleSamples

SpecEdit == InitEdit /\ [][NextEdit]_vars

(***************************************************************************)
(* Properties.                                                             *)
(***************************************************************************)
\* the call of p has ended after handing all three arrays to np.save
Built(p) == pc[p] = "done" /\ DOMAIN wrote[p] = Kinds

Count(x, v) == Cardinality({ i \in 1..Len(x) : x[i] = v })

IsPermutationOfRange(x, n) == Len(x) = n /\ \A v \in 0..(n - 1) : Count(x, v) = 1

PairLess(u, v) == u[1] < v[1] \/ (u[1] = v[1] /\ u[2] < v[2])

StrictlyIncreasing(x) == \A i \in 1..(Len(x) - 1) : PairLess(x[i], x[i + 1])

C3_FingerprintSeparatesFiles ==
    /\ \A i, j \in 1..Len(calls) :
          /\ Cardinality(FileNames(calls[i])) = 3
          /\ Fingerprint(calls[i]) # Fingerprint(calls[j])
             => FileNames(calls[i]) \cap FileNames(calls[j]) = {}
    /\ \A i \in 1..Len(calls) : \A f \in FileNames(calls[i]) \cap DOMAIN files :
          Fingerprint(calls[files[f].by]) = Fingerprint(calls[i])
    /\ \A p \in Procs :
          pc[p] = "cached"
          => \E i \in 1..Len(calls) :
                i # loc[p].callid /\ Fingerprint(calls[i]) = Fingerprint(args[p])

C3_Witness ==
    /\ Differing(args["p1"], args["p2"]) = {"seed"}
    /\ Built("p1") /\ Built("p2")
    /\ "p1" \in loc["p2"].preceded
    /\ \A k \in Kinds :
          /\ files[FileName(args["p1"], k)] =
                [data |-> wrote["p1"][k], complete |-> TRUE, by |-> 1]
          /\ files[FileName(args["p2"], k)].by = 2

\* C4: of the processes that call with the same fingerprint while no cache
\* file exists, exactly one writes the three files; every other one writes
\* nothing and ends only when the three files exist, completely written.
C4_SingleBuilder ==
    \A p, q \in Procs :
        (/\ p # q
         /\ Fingerprint(args[p]) = Fingerprint(args[q])
         /\ loc[p].present = {} /\ loc[q].present = {}
         /\ wrote[p] # NoWrites)
        => /\ wrote[q] = NoWrites
           /\ pc[q] = "done"
              => \A k \in Kinds :
                    /\ isfile(FileName(args[q], k))
                    /\ files[FileName(args[q], k)].complete

\* C5: whenever the existence check on the three files has succeeded, each
\* of the three files is completely written and all three come from the
\* same build.
C5_CheckSeesCompleteFiles ==
    \A p \in Procs :
        pc[p] = "cached"
        => \A k \in Kinds :
              /\ files[FileName(args[p], k)].complete
              /\ files[FileName(args[p], k)].by =
                    files[FileName(args[p], "doc_idx")].by

\* C6: the shuffle_idx a build persists is a permutation of [0, N), where
\* N + 1 is the number of entries of the sample_idx it persists.
C6_ShuffleIsPermutation ==
    \A p \in Procs :
        Built(p)
        => IsPermutationOfRange(wrote[p].shuffle_idx, Len(wrote[p].sample_idx) - 1)

C6_Witness ==
    \E p \in Procs :
        /\ Built(p)
        /\ args[p].packing_impl = "packed"
        /\ Len(wrote[p].shuffle_idx) >= 3
        /\ wrote[p].shuffle_idx # arange(Len(wrote[p].shuffle_idx))
        /\ files[FileName(args[p], "shuffle_idx")].data = wrote[p].shuffle_idx

EpochSlice(doc_idx, e, n) == [i \in 1..n |-> doc_idx[e * n + i]]

\* C9 as stated: under packed every epoch's slice of doc_idx holds every
\* document id of the split exactly once.
C9_EpochSlices_Original ==
    \A p \in Procs :
        (Built(p) /\ args[p].packing_impl = "packed")
        => \A e \in 0..(loc[p].num_epochs - 1) :
              \A i \in 1..Len(args[p].documents) :
                 Count(EpochSlice(wrote[p].doc_idx, e, Len(args[p].documents)),
                       args[p].documents[i]) = 1

\* C9 amended: under packed the whole doc_idx holds every document id of the
\* split exactly num_epochs times and nothing else; an epoch's slice need
\* not be a permutation of the document ids unless num_epochs is 1.
C9_DocIdxCounts ==
    \A p \in Procs :
        (Built(p) /\ args[p].packing_impl = "packed")
        => /\ \A i \in 1..Len(args[p].documents) :
                 Count(wrote[p].doc_idx, args[p].documents[i]) = loc[p].num_epochs
           /\ \A i \in 1..Len(wrote[p].doc_idx) :
                 \E j \in 1..Len(args[p].documents) :
                    wrote[p].doc_idx[i] = args[p].documents[j]

C9_Witness ==
    \E p \in Procs :
        /\ Built(p)
        /\ args[p].packing_impl = "packed"
        /\ loc[p].num_epochs >= 2
        /\ args[p].documents = <<1, 2>>
        /\ \E e \in 0..(loc[p].num_epochs - 1) :
              Count(EpochSlice(wrote[p].doc_idx, e, 2), 1) = 2

\* C10: _num_epochs returns the smallest n >= 1 with
\* (n * tokens_per_epoch - 1) \div seq_length >= num_samples.
C10_NumEpochsSmallest ==
    pure_out # <<>>
    => LET n == pure_out[1]
           Enough(m) ==
               ((m * pure_in.tokens_per_epoch - 1) \div pure_in.seq_length)
                   >= pure_in.num_samples
       IN  /\ n >= 1
           /\ Enough(n)
           /\ \A m \in 1..(n - 1) : ~Enough(m)

C10_Witness ==
    /\ pure_out = <<3>>
    /\ pure_in = [tokens_per_epoch |-> 4, seq_length |-> 3, num_samples |-> 3]

\* the documents of sample k (k = 1 is the first sample): the entries of
\* doc_idx from the boundary sample_idx[k] up to the boundary sample_idx[k + 1]
SampleDocs(sample_idx, doc_idx, k) ==
    [i \in 1..(sample_idx[k + 1][1] - sample_idx[k][1]) |->
        doc_idx[sample_idx[k][1] + i]]

SampleTotal(sizes, docs) == SumSeq([i \in 1..Len(docs) |-> At(sizes, docs[i])])

\* C11: under pack_until_overflow every sample of more than one document
\* totals at most seq_length + 1 tokens; a sample together with the first
\* document of the sample after it totals more than seq_length + 1; and with
\* allow_chopped false no document of doc_idx is longer than seq_length + 1,
\* so that every sample totals at most seq_length + 1.
C11_GreedyPacking ==
    \A p \in Procs :
        (Built(p) /\ args[p].packing_impl = "pack_until_overflow")
        => LET a       == args[p]
               sidx    == wrote[p].sample_idx
               didx    == wrote[p].doc_idx
               Docs(k) == SampleDocs(sidx, didx, k)
               Tot(k)  == SampleTotal(a.sizes, Docs(k))
           IN  /\ \A k \in 1..(Len(sidx) - 1) :
                     /\ Len(Docs(k)) > 1 => Tot(k) <= a.seq_length + 1
                     /\ ~a.allow_chopped => Tot(k) <= a.seq_length + 1
               /\ \A k \in 1..(Len(sidx) - 2) :
                     Tot(k) + At(a.sizes, Docs(k + 1)[1]) > a.seq_length + 1
               /\ ~a.allow_chopped
                  => \A i \in 1..Len(didx) : At(a.sizes, didx[i]) <= a.seq_length + 1

C11_Witness ==
    \E p \in Procs :
        /\ Built(p)
        /\ args[p].packing_impl = "pack_until_overflow"
        /\ ~args[p].allow_chopped
        /\ \E d \in 0..(Len(args[p].documents) - 1) : Oversized(args[p], d)
        /\ args[p].num_samples = 2
        /\ Len(SampleDocs(wrote[p].sample_idx, wrote[p].doc_idx, 1)) >= 2

\* C12: under pack_until_overflow each of the num_samples samples, the last
\* one included, has ended because the document visited next, when it is one
\* the loop uses, would have taken the sample over seq_length + 1 tokens; the
\* build then appends the closing boundary (len(doc_idx), 0).
C12_ClosedByOverflow ==
    \A p \in Procs :
        (Built(p) /\ args[p].packing_impl = "pack_until_overflow"
            /\ args[p].num_samples >= 1)
        => LET a      == args[p]
               sidx   == wrote[p].sample_idx
               didx   == wrote[p].doc_idx
               n      == a.num_samples
               next   == At(loc[p].temp_shuffle_idx, loc[p].curr_shuffle_idx)
               Tot(k) == SampleTotal(a.sizes, SampleDocs(sidx, didx, k))
           IN  /\ Len(sidx) = n + 1
               /\ sidx[n + 1] = <<Len(didx), 0>>
               /\ \A k \in 1..(n - 1) :
                     Tot(k) + At(a.sizes, SampleDocs(sidx, didx, k + 1)[1])
                        > a.seq_length + 1
               /\ ~PuoSkips(a, next)
                  => Tot(n) + At(a.sizes, next) > a.seq_length + 1

\* C13: under pack_until_overflow the cursor is a valid position of the
\* shuffled order, in [0, num_documents), whenever the loop begins an
\* iteration, also after the last document of the order was passed over; the
\* walk never fails on a position past the end.
C13_CursorInRange ==
    \A p \in Procs :
        /\ (pc[p] = "puo_loop" /\ PuoMore(loc[p], args[p]))
           => loc[p].curr_shuffle_idx \in 0..(Len(args[p].documents) - 1)
        /\ ~(pc[p] = "error" /\ loc[p].exc = "IndexError")

\* C14: under unpacked a build collects exactly num_samples documents, each
\* one a document the walk does not skip, and sample_idx[i] = (i, 0) for
\* every i; the call with sizes [3,5,2,4], seq_length 4, allow_chopped true,
\* nothing masked and 4 samples ends with doc_idx = [0,1,2,3].
C14_UnpackedCollects ==
    \A p \in Procs :
        args[p].packing_impl = "unpacked"
        => /\ Built(p)
              => /\ Len(wrote[p].doc_idx) = args[p].num_samples
                 /\ \A i \in 1..Len(wrote[p].sample_idx) :
                       wrote[p].sample_idx[i] = <<i - 1, 0>>
                 /\ args[p] \in ScenarioArgs("unpacked")
                    => wrote[p].doc_idx = <<0, 1, 2, 3>>
           /\ args[p] \in ScenarioArgs("unpacked") => pc[p] # "error"

\* C15: under unpacked with allow_chopped false no document placed in doc_idx
\* has more than seq_length + add_extra_token_to_seq tokens, whatever
\* non-negative add_extra_token_to_seq the dataset is configured with.
C15_UnpackedWithinLength ==
    \A p \in Procs :
        (/\ args[p].packing_impl = "unpacked"
         /\ ~args[p].allow_chopped
         /\ pc[p] \in {"unp_loop", "save_doc_idx", "write_doc_idx", "done"})
        => \A i \in 1..Len(loc[p].doc_idx) :
              At(args[p].sizes, loc[p].doc_idx[i])
                 <= args[p].seq_length + dataset.add_extra_token_to_seq

\* C16: a call with a packing policy other than packed, pack_until_overflow
\* and unpacked, made while its cache files do not exist, does not return
\* normally: it fails with a configuration error, and it writes no file.
C16_UnknownPolicyFails ==
    \A p \in Procs :
        (/\ args[p].packing_impl \notin {"", "packed", "pack_until_overflow", "unpacked"}
         /\ loc[p].present # Kinds)
        => /\ pc[p] # "done"
           /\ pc[p] = "error" => loc[p].exc = "InvalidConfiguration"
           /\ wrote[p] = NoWrites
           /\ FileNames(args[p]) \cap DOMAIN files = {}

\* every document of the split is one the walk of the policy passes over
AllSkippable(a) ==
    \A d \in 0..(Len(a.documents) - 1) :
        IF a.packing_impl = "pack_until_overflow" THEN PuoSkips(a, d)
        ELSE Oversized(a, d)
                \/ (a.label_dataset # None /\ Masked(a, d, a.seq_length))

\* C17: under pack_until_overflow or unpacked, a walk over documents that
\* are all skippable, for num_samples >= 1, comes to an end with an
\* ExhaustedCorpus error.
C17_WalkEnds ==
    \A p \in Procs :
        (/\ pc[p] \in {"puo_loop", "unp_loop"}
         /\ args[p].num_samples >= 1
         /\ AllSkippable(args[p]))
        ~> (pc[p] = "error" /\ loc[p].exc = "ExhaustedCorpus")

\* the numbers of a ratio string whose fields are all numeric
Ratios(splits_string) ==
    LET fields == Fields(splits_string)
    IN  [i \in 1..Len(fields) |-> float(fields[i])]

\* a ratio specification: one to three numbers with a positive sum
IsRatioSpec(splits_string) ==
    /\ \A i \in 1..Len(Fields(splits_string)) : IsFloat(Fields(splits_string)[i])
    /\ Len(Fields(splits_string)) <= 3
    /\ SumSeq(Ratios(splits_string)) > 0

Abs(x) == IF x < 0 THEN -x ELSE x

\* C18: for a ratio specification with a positive sum and any size >= 0 the
\* function returns four boundaries, the first 0 and the last exactly size;
\* the boundaries are the cumulative rounded shares moved down together by
\* the rounding error, so that the second and the third range each keep a
\* length within one half of its exact share ratio * size / sum.
C18_BoundariesEndAtSize ==
    (pure_out # <<>> /\ "splits_string" \in DOMAIN pure_in
        /\ IsRatioSpec(pure_in.splits_string))
    => LET b      == pure_out[1].value
           ratios == PadWithZeros(Ratios(pure_in.splits_string))
           total  == SumSeq(ratios)
       IN  /\ pure_out[1].exc = ""
           /\ Len(b) = 4
           /\ b[1] = 0
           /\ b[4] = pure_in.size
           /\ \A i \in 2..3 :
                 2 * Abs((b[i + 1] - b[i]) * total - ratios[i] * pure_in.size) <= total

C18_Witness ==
    /\ pure_in = [splits_string |-> <<"1", "/", "1">>, size |-> 3]
    /\ pure_out = <<Returned(<<0, 1, 3, 3>>)>>

\* C19: the ratio "969,30,1" with size 1000 gives [0, 969, 999, 1000]; a
\* ratio of fewer than three fields is completed with zeros: a single
\* positive ratio gives [0, size, size, size], and two ratios leave the third
\* range empty.
C19_DefaultSplitAndPadding ==
    (pure_out # <<>> /\ "splits_string" \in DOMAIN pure_in)
    => LET b == pure_out[1].value
       IN  /\ pure_in = DefaultSplit => pure_out[1] = Returned(<<0, 969, 999, 1000>>)
           /\ (IsRatioSpec(pure_in.splits_string)
                  /\ Len(Fields(pure_in.splits_string)) = 1)
              => pure_out[1] =
                    Returned(<<0, pure_in.size, pure_in.size, pure_in.size>>)
           /\ (IsRatioSpec(pure_in.splits_string)
                  /\ Len(Fields(pure_in.splits_string)) = 2)
              => /\ pure_out[1].exc = ""
                 /\ b[3] = pure_in.size /\ b[4] = pure_in.size

C19_Witness ==
    /\ pure_in = DefaultSplit
    /\ pure_out = <<Returned(<<0, 969, 999, 1000>>)>>

\* the ratio string has more than three fields, all of them numeric
MoreThanThreeFields(splits_string) ==
    /\ \A i \in 1..Len(Fields(splits_string)) : IsFloat(Fields(splits_string)[i])
    /\ Len(Fields(splits_string)) > 3

\* C20 as stated: for a ratio string of more than three numeric fields the
\* function fails and returns no boundaries.
C20_FourFieldsFail_Original ==
    (pure_out # <<>> /\ "splits_string" \in DOMAIN pure_in
        /\ MoreThanThreeFields(pure_in.splits_string))
    => pure_out[1].exc # ""

\* C20 amended: for a ratio string of more than three numeric fields the
\* function uses the first three fields and ignores the others: when the
\* first three sum to more than 0 it returns four boundaries from 0 to size
\* whose second and third range are within one half of the shares of the
\* second and third field among the first three; otherwise it fails on its
\* assertion.
C20_FirstThreeFieldsUsed ==
    (pure_out # <<>> /\ "splits_string" \in DOMAIN pure_in
        /\ MoreThanThreeFields(pure_in.splits_string))
    => LET b      == pure_out[1].value
           ratios == SubSeq(Ratios(pure_in.splits_string), 1, 3)
           total  == SumSeq(ratios)
       IN  IF total > 0
           THEN /\ pure_out[1].exc = ""
                /\ Len(b) = 4
                /\ b[1] = 0
                /\ b[4] = pure_in.size
                /\ \A i \in 2..3 :
                      2 * Abs((b[i + 1] - b[i]) * total - ratios[i] * pure_in.size)
                         <= total
           ELSE pure_out[1] = Raised("AssertionError")

C20_Witness ==
    /\ pure_in = [splits_string |-> <<"1", ",", "1", ",", "1", ",", "3">>, size |-> 3]
    /\ pure_out = <<Returned(<<0, 1, 2, 3>>)>>

\* C26: for a ratio specification of non-negative numbers with a positive
\* sum and any size >= 0 the returned boundaries are ordered and in range,
\* 0 <= b1 <= b2 <= size.
C26_BoundariesOrdered ==
    (pure_out # <<>> /\ "splits_string" \in DOMAIN pure_in
        /\ IsRatioSpec(pure_in.splits_string))
    => LET b == pure_out[1].value
       IN  /\ pure_out[1].exc = ""
           /\ 0 <= b[2] /\ b[2] <= b[3] /\ b[3] <= pure_in.size

\* C27: under every policy each id of the persisted doc_idx is one of the
\* ids of the documents argument, also when documents does not begin at id
\* 0, and the size the build compared with seq_length + 1 for an entry is the
\* size of that document: with allow_chopped false under pack_until_overflow
\* and unpacked it is at most seq_length + 1.
C27_DocIdxWithinDocuments ==
    \A p \in Procs :
        Built(p)
        => \A i \in 1..Len(wrote[p].doc_idx) :
              /\ \E j \in 1..Len(args[p].documents) :
                    wrote[p].doc_idx[i] = args[p].documents[j]
              /\ (~args[p].allow_chopped /\ args[p].packing_impl # "packed")
                 => At(args[p].sizes, wrote[p].doc_idx[i]) <= args[p].seq_length + 1

\* C28: a call without a label dataset under pack_until_overflow or unpacked
\* does not fail: it treats no document as fully masked and ends having
\* handed the three arrays to np.save.
C28_NoLabelDatasetBuilds ==
    \A p \in Procs :
        (/\ args[p].packing_impl \in {"pack_until_overflow", "unpacked"}
         /\ args[p].label_dataset = None)
        => /\ pc[p] # "error"
           /\ pc[p] = "done" => (loc[p].hit \/ Built(p))

\* the three arrays a build under packed makes from the arguments a alone
FreshPacked(a) ==
    LET tokens_per_epoch == _num_tokens(a.documents, a.sizes)
        num_epochs == IF a.num_epochs = 0
                      THEN _num_epochs(tokens_per_epoch, a.seq_length, a.num_samples)
                      ELSE a.num_epochs
        doc        == _build_doc_idx(a.documents, num_epochs, RandomState(a.seed))
        sample_idx == build_sample_idx(a.sizes, doc.arr, a.seq_length, num_epochs,
                                       tokens_per_epoch)
        shuffled   == _build_shuffle_idx(Len(sample_idx) - 1, doc.rng)
    IN  [doc_idx |-> doc.arr, sample_idx |-> sample_idx, shuffle_idx |-> shuffled.arr]

\* C29: when a call under packed, made after the calls before it have ended,
\* returns, the three files under its names are complete and hold the arrays
\* that a build from its own documents, sizes and num_epochs makes, also when
\* an earlier call had the same fingerprint and other documents, sizes or
\* num_epochs.
C29_CacheHoldsOwnBuild ==
    \A p \in Procs :
        (/\ pc[p] = "done"
         /\ args[p].packing_impl = "packed"
         /\ loc[p].preceded = Procs \ {p})
        => \A k \in Kinds :
              /\ isfile(FileName(args[p], k))
              /\ files[FileName(args[p], k)].complete
              /\ files[FileName(args[p], k)].data = FreshPacked(args[p])[k]

(***************************************************************************)
(* The edit handler.                                                       *)
(***************************************************************************)
\* the dataset the manager's handlers work on
CurrentDataset == objects[manager.WriteableMMapIndexedDataset[1]]

\* C21: a call of inject_and_preview with dry_run=True leaves the corpus as
\* it was, and the details it returns show the same raw tokens for the
\* sample before and after, whatever the injection type and the payload
C21_DryRunLeavesCorpus ==
    (ret.op = "inject_and_preview" /\ ret.args.dry_run)
    => /\ corpus = ret.corpus_before
       /\ ret.value # None
            => ret.value[1].modified_sample.raw_tokens
                 = ret.value[1].original_sample.raw_tokens

C21_Witness ==
    /\ ret.op = "inject_and_preview"
    /\ ret.args.dry_run
    /\ ret.args.injection_type = "seq_shuffle"
    /\ ret.exc = ""
    /\ ret.value # None
    /\ ret.value[1].injected_tokens = <<7, 8, 9>>
    /\ ret.value[1].original_sample.raw_tokens = <<1, 2, 3>>

\* the failures C22 lists, for the arguments a of a call of inject_and_preview
ListedFailure(a) ==
    \/ ~isinstance(a.text, "str")
    \/ a.tokenizer = None
    \/ ~isinstance(a.injection_loc, "int")
    \/ a.injection_loc[2] < 0
    \/ a.injection_type \notin {"seq_shuffle", "seq_start"}
    \/ a.injection_loc[2] >= num_samples(CurrentDataset)

\* C22: a call of inject_and_preview with a text that is no string, no
\* tokenizer, a negative or non-integer injection_loc, an injection_type
\* other than seq_shuffle and seq_start, or a location with no sample raises
\* ValueError without having called inject_example_into_corpus, and the
\* corpus is the one before the call
C22_FailingInjectionWritesNothing ==
    (ret.op = "inject_and_preview" /\ ListedFailure(ret.args))
    => /\ ret.exc = "ValueError"
       /\ ret.injected = 0
       /\ corpus = ret.corpus_before

C22_Witness ==
    /\ ret.op = "inject_and_preview"
    /\ ~ret.args.dry_run
    /\ ret.args.tokenizer # None
    /\ isinstance(ret.args.text, "str")
    /\ ret.args.injection_type = "seq_end"
    /\ ret.args.injection_loc = <<"int", 0>>
    /\ ret.exc = "ValueError"

(***************************************************************************)
(* The manager's set-up.                                                   *)
(***************************************************************************)
HandlerSet(m, attribute) == m[attribute] # None

\* C23: setup_edit_inspect_sample_export called when edit, inspect, sample
\* or export is already set raises ValueError, setup_search called when
\* search is already set raises ValueError, and after a
\* setup_edit_inspect_sample_export that raised nothing all four handlers
\* are set
C23_SetupOnceOnly ==
    /\ (ret.op = "setup_edit_inspect_sample_export"
         /\ \E h \in {"edit", "inspect", "sample", "export"} :
               HandlerSet(ret.manager_before, h))
        => ret.exc = "ValueError"
    /\ (ret.op = "setup_search" /\ HandlerSet(ret.manager_before, "search"))
        => ret.exc = "ValueError"
    /\ (ret.op = "setup_edit_inspect_sample_export" /\ ret.exc = "")
        => \A h \in {"edit", "inspect", "sample", "export"} :
              HandlerSet(manager, h)

\* a second set-up with arguments the dataset accepts, after export alone
\* was left set
C23_Witness ==
    /\ ret.op = "setup_edit_inspect_sample_export"
    /\ ret.args.train_seq_len > 0
    /\ ret.args.add_extra_token_to_seq >= 0
    /\ ~HandlerSet(ret.manager_before, "edit")
    /\ HandlerSet(ret.manager_before, "export")
    /\ ret.exc = "ValueError"

\* C24: validate_injection_location(loc) returns True exactly when loc is an
\* integer with 0 <= loc < the number of samples of the dataset; so it
\* returns True for location 0 of a set-up dataset that has a sample
C24_ValidatesLocation ==
    ret.op = "validate_injection_location"
    => (ret.value[1]
          <=> /\ isinstance(ret.args.injection_loc, "int")
              /\ 0 <= ret.args.injection_loc[2]
              /\ ret.args.injection_loc[2] < num_samples(CurrentDataset))

\* C30: a setup_edit_inspect_sample_export that raises ValueError because a
\* handler is already set leaves the manager as it was: the dataset its
\* handlers work on is the object it was before the call
C30_FailedSetupKeepsDataset ==
    (/\ ret.op = "setup_edit_inspect_sample_export"
     /\ ret.exc = "ValueError"
     /\ \E h \in {"edit", "inspect", "sample", "export"} :
           HandlerSet(ret.manager_before, h))
    => manager.WriteableMMapIndexedDataset
         = ret.manager_before.WriteableMMapIndexedDataset

(***************************************************************************)
(* inject_multiple_samples.                                                *)
(***************************************************************************)
WellFormed(specification) ==
    /\ isinstance(specification, "dict")
    /\ "text" \in DOMAIN specification[2]
    /\ "injection_loc" \in DOMAIN specification[2]

\* the call a of inject_multiple_samples asked for details and handed over
\* a non-empty list of well-formed specifications
DetailsOfWellFormedList(a) ==
    /\ a.return_details
    /\ isinstance(a.injections, "list")
    /\ a.injections[2] # <<>>
    /\ \A i \in 1..Len(a.injections[2]) : WellFormed(a.injections[2][i])

\* the injection of the dictionary d fails in the call a
InjectionFails(d, a) ==
    \/ ~isinstance(d.text, "str")
    \/ ~isinstance(d.injection_loc, "int")
    \/ d.injection_loc[2] < 0
    \/ d.injection_loc[2] >= num_samples(CurrentDataset)
    \/ ("injection_type" \in DOMAIN d
          /\ d.injection_type \notin {"seq_shuffle", "seq_start"})
    \/ a.tokenizer[1].fails
    \/ a.fails

\* the call returned a list with one entry per specification, in order: an
\* error record with the specification's index where its injection failed,
\* the details of its injection where it did not
OneEntryPerSpecification ==
    /\ ret.exc = ""
    /\ ret.value # None
    /\ Len(ret.value[1]) = Len(ret.args.injections[2])
    /\ \A i \in 1..Len(ret.args.injections[2]) :
          LET d     == ret.args.injections[2][i][2]
              entry == ret.value[1][i]
          IN  IF InjectionFails(d, ret.args)
              THEN /\ "error" \in DOMAIN entry
                   /\ entry.injection_index = i - 1
              ELSE /\ "error" \notin DOMAIN entry
                   /\ entry.injection_location = d.injection_loc[2]
                   /\ entry.injected_text = d.text[2]

\* C25 as stated: inject_multiple_samples with return_details=True and a
\* non-empty list of well-formed specifications returns one entry per
\* specification, in order, an error record with its index for an injection
\* that fails, and goes on to the injections after it
C25_OneEntryPerSpecification_Original ==
    (ret.op = "inject_multiple_samples" /\ DetailsOfWellFormedList(ret.args))
    => OneEntryPerSpecification

\* C25, amended: the same when a tokenizer is given; without one the call
\* raises ValueError before the first specification
C25_OneEntryPerSpecification ==
    /\ (/\ ret.op = "inject_multiple_samples"
         /\ DetailsOfWellFormedList(ret.args)
         /\ ret.args.tokenizer # None)
        => OneEntryPerSpecification
    /\ (ret.op = "inject_multiple_samples" /\ ret.args.tokenizer = None)
        => (ret.exc = "ValueError" /\ ret.injected = 0)

\* the first of two injections fails, the second is made and stored
C25_Witness ==
    /\ ret.op = "inject_multiple_samples"
    /\ DetailsOfWellFormedList(ret.args)
    /\ ret.args.tokenizer # None
    /\ ~ret.args.dry_run
    /\ Len(ret.args.injections[2]) = 2
    /\ InjectionFails(ret.args.injections[2][1][2], ret.args)
    /\ ~InjectionFails(ret.args.injections[2][2][2], ret.args)
    /\ "error" \in DOMAIN ret.value[1][1]
    /\ "error" \notin DOMAIN ret.value[1][2]
    /\ corpus # ret.corpus_before

====
